---- MODULE Spec2Model ----
(***************************************************************************)
(* Graph construction of the residual network of                           *)
(* tensorflow_code/model/resnet2.py.                                       *)
(*                                                                         *)
(* A tensor handle is the index of a node in the computation graph; the    *)
(* graph is the sequence of the operations registered so far.  Every       *)
(* function of resnet2.py is an operator from a builder state (graph,      *)
(* current tensor, raised exception, invocation logs) to a builder state.  *)
(***************************************************************************)
EXTENDS Integers, Sequences, FiniteSets

VARIABLES
  ctor,     \* the arguments Model(...) was constructed with, NoArgs if none was
  model,    \* the Model object, NoModel if none exists
  images,   \* the shape of the input batch the driver feeds, <<>> if none
  err,      \* the exception raised by the last operation, NoError if none
  graph,    \* the operations the last operation registered
  out,      \* the handle of the tensor it returned, NoTensor if none
  bcalls,   \* the block function invocations it made, in order
  lcalls,   \* the block_layer invocations it made, in order
  ncalls,   \* the invocations of the Model so far
  applied,  \* the last operation and its arguments, NoCall if none
  params,   \* the params object build_resnet_ is given, NoParams if none
  train     \* the state of the training entry point, NoTrain if not running

vars ==
  <<ctor, model, images, err, graph, out, bcalls, lcalls, ncalls, applied,
    params, train>>

----------------------------------------------------------------------------
(* Bounds of the model *)

MaxSize == 4        \* input height and width range over 1..MaxSize
MaxChannels == 4    \* input channel counts of the block functions
MaxKernel == 3      \* kernel sizes range over 1..MaxKernel
MaxStride == 3      \* strides of the primitives and blocks, 1..MaxStride
MaxBlocks == 3      \* blocks of one block layer, 0..MaxBlocks
MaxStages == 2      \* lengths of block_sizes and block_strides, 0..MaxStages
MaxCalls == 2       \* invocations of one Model that are counted

(* Values the arguments are drawn from *)

Versions == 0 .. 3
FilterCounts == {1, 2}
ClassCounts == {3}
BatchSizes == {2}
WeightDecays == {5}                 \* in units of 1/1000
\* <<kernel_size, conv_stride>> of the initial convolution
StemConvs == {<<3, 1>>, <<2, 2>>}
ModelStrides == {1, 2}
ModelBlockCounts == {1, 2}
\* <<first_pool_size, first_pool_stride, second_pool_size, second_pool_stride>>;
\* a first_pool_size of 0 stands for None (both are false in `if`)
PoolConfigs == {<<0, 1, 1, 1>>, <<2, 2, 2, 1>>}

DEFAULT_VERSION == 2

NoTensor == 0
NoError == "none"
NoModel == [exists |-> FALSE]
NoArgs == [given |-> FALSE]
NoCall == [fn |-> "none"]
NoParams == [given |-> FALSE]
NoTrain == [pc |-> "none"]

----------------------------------------------------------------------------
(* Graph nodes and the builder state *)

\* Every node holds its operation, the handles of its arguments, its static
\* shape and whether its values are known to be >= 0; an operation with
\* parameters holds them in fields of its own.

\* A fresh graph holding the input placeholder [n, h, w, c]
Input(n, h, w, c) ==
  [g |-> <<[op |-> "placeholder", args |-> <<>>, shape |-> <<n, h, w, c>>,
           nonneg |-> FALSE]>>,
   t |-> 1, err |-> NoError, bcalls |-> <<>>, lcalls |-> <<>>]

\* Registering an operation; nothing runs after an exception was raised
Emit(st, node) ==
  IF st.err # NoError THEN st
  ELSE [st EXCEPT !.g = Append(@, node), !.t = Len(st.g) + 1]

Raise(st, e) ==
  IF st.err # NoError THEN st
  ELSE [st EXCEPT !.err = e, !.t = NoTensor]

\* The builder state with `h` as its current tensor
At(st, h) == IF st.err # NoError THEN st ELSE [st EXCEPT !.t = h]

Cur(st) == st.g[st.t]

CeilDiv(a, b) == (a + b - 1) \div b

\* Output size of a 'SAME' window: ceil(in / stride)
SameOut(i, s) == CeilDiv(i, s)

\* Output size of a 'VALID' window: floor((in - k) / stride) + 1
ValidOut(i, k, s) == (i - k) \div s + 1

----------------------------------------------------------------------------
(* Primitives *)

tf_identity(st, name) ==
  IF st.err # NoError THEN st
  ELSE Emit(st, [op |-> "identity", args |-> <<st.t>>, shape |-> Cur(st).shape,
                 nonneg |-> Cur(st).nonneg, name |-> name])

tf_nn_relu(st) ==
  IF st.err # NoError THEN st
  ELSE Emit(st, [op |-> "relu", args |-> <<st.t>>, shape |-> Cur(st).shape,
                 nonneg |-> TRUE])

batch_norm(st, training) ==
  IF st.err # NoError THEN st
  ELSE Emit(st, [op |-> "batch_norm", args |-> <<st.t>>, shape |-> Cur(st).shape,
                 nonneg |-> FALSE, training |-> training])

\* fixed_padding with pad_total taken as kernel_size
fixed_padding_total_off_by_one(st, kernel_size) ==
  IF st.err # NoError THEN st
  ELSE LET pad_total == kernel_size
           pad_beg == pad_total \div 2
           pad_end == pad_total - pad_beg
           sh == Cur(st).shape
       IN Emit(st, [op |-> "pad", args |-> <<st.t>>,
                     shape |-> <<sh[1], sh[2] + pad_beg + pad_end,
                                 sh[3] + pad_beg + pad_end, sh[4]>>,
                     nonneg |-> Cur(st).nonneg,
                     pad_beg |-> pad_beg, pad_end |-> pad_end])

fixed_padding(st, kernel_size) ==
  IF st.err # NoError THEN st
  ELSE LET pad_total == kernel_size - 1
           pad_beg == pad_total \div 2
           pad_end == pad_total - pad_beg
           sh == Cur(st).shape
       IN Emit(st, [op |-> "pad", args |-> <<st.t>>,
                     shape |-> <<sh[1], sh[2] + pad_beg + pad_end,
                                 sh[3] + pad_beg + pad_end, sh[4]>>,
                     nonneg |-> Cur(st).nonneg,
                     pad_beg |-> pad_beg, pad_end |-> pad_end])

\* tf.contrib.layers.conv2d: the convolution, then its activation_fn, which
\* the call leaves at the library's default (ReLU)
contrib_conv2d(st, num_outputs, kernel_size, stride, padding, wd) ==
  IF st.err # NoError THEN st
  ELSE LET sh == Cur(st).shape
       IN IF padding = "VALID" /\ (sh[2] < kernel_size \/ sh[3] < kernel_size)
          THEN Raise(st, "ValueError")
          ELSE LET oh == IF padding = "SAME" THEN SameOut(sh[2], stride)
                         ELSE ValidOut(sh[2], kernel_size, stride)
                   ow == IF padding = "SAME" THEN SameOut(sh[3], stride)
                         ELSE ValidOut(sh[3], kernel_size, stride)
               IN tf_nn_relu(Emit(st, [op |-> "conv2d", args |-> <<st.t>>,
                                        shape |-> <<sh[1], oh, ow, num_outputs>>,
                                        nonneg |-> FALSE, k |-> kernel_size,
                                        s |-> stride, padding |-> padding,
                                        wd |-> wd]))

conv2d_fixed_padding(st, filters, kernel_size, strides, weight_decay) ==
  LET padded == IF strides > 1 THEN fixed_padding(st, kernel_size) ELSE st
  IN contrib_conv2d(padded, filters, kernel_size, strides,
                    IF strides = 1 THEN "SAME" ELSE "VALID", weight_decay)

----------------------------------------------------------------------------
(* Residual blocks *)

\* the last convolution of a bottleneck block, to `filters` outputs
expand_conv_unexpanded(st, filters, weight_decay) ==
  conv2d_fixed_padding(st, filters, 1, 1, weight_decay)

\* The last convolution of a bottleneck block: to 4 * filters outputs
expand_conv(st, filters, weight_decay) ==
  conv2d_fixed_padding(st, 4 * filters, 1, 1, weight_decay)

\* `a + b` of two tensors: elementwise, broadcasting dimensions of size 1
Broadcastable(x, y) ==
  /\ Len(x) = Len(y)
  /\ \A i \in 1 .. Len(x) : x[i] = y[i] \/ x[i] = 1 \/ y[i] = 1

tf_add(st, a, b) ==
  IF st.err # NoError THEN st
  ELSE LET x == st.g[a].shape
           y == st.g[b].shape
       IN IF ~Broadcastable(x, y) THEN Raise(st, "ValueError")
          ELSE Emit(st, [op |-> "add", args |-> <<a, b>>,
                          shape |-> [i \in 1 .. Len(x) |->
                                       IF x[i] >= y[i] THEN x[i] ELSE y[i]],
                          nonneg |-> st.g[a].nonneg /\ st.g[b].nonneg])

\* The projection_shortcut argument of a block: None, or the closure of
\* block_layer with the filters_out and strides it captured
None == [present |-> FALSE, filters_out |-> 0, strides |-> 0]

Closure(filters_out, strides) ==
  [present |-> TRUE, filters_out |-> filters_out, strides |-> strides]

projection_shortcut(st, proj, weight_decay) ==
  conv2d_fixed_padding(st, proj.filters_out, 1, proj.strides, weight_decay)

building_block_v1(st, filters, training, proj, strides, weight_decay) ==
  LET inputs == st.t
      s1 == IF proj.present
            THEN batch_norm(projection_shortcut(st, proj, weight_decay), training)
            ELSE st
      shortcut == s1.t
      c1 == conv2d_fixed_padding(At(s1, inputs), filters, 3, strides, weight_decay)
      r1 == tf_nn_relu(batch_norm(c1, training))
      c2 == conv2d_fixed_padding(r1, filters, 3, 1, weight_decay)
      n2 == batch_norm(c2, training)
  IN tf_nn_relu(tf_add(n2, n2.t, shortcut))

building_block_v2(st, filters, training, proj, strides, weight_decay) ==
  LET shortcut0 == st.t
      pre == tf_nn_relu(batch_norm(st, training))
      inputs == pre.t
      s1 == IF proj.present THEN projection_shortcut(pre, proj, weight_decay)
            ELSE pre
      shortcut == IF proj.present THEN s1.t ELSE shortcut0
      c1 == conv2d_fixed_padding(At(s1, inputs), filters, 3, strides, weight_decay)
      r1 == tf_nn_relu(batch_norm(c1, training))
      c2 == conv2d_fixed_padding(r1, filters, 3, 1, weight_decay)
  IN tf_add(c2, c2.t, shortcut)

bottleneck_block_v1(st, filters, training, proj, strides, weight_decay) ==
  LET inputs == st.t
      s1 == IF proj.present
            THEN batch_norm(projection_shortcut(st, proj, weight_decay), training)
            ELSE st
      shortcut == s1.t
      c1 == conv2d_fixed_padding(At(s1, inputs), filters, 1, 1, weight_decay)
      r1 == tf_nn_relu(batch_norm(c1, training))
      c2 == conv2d_fixed_padding(r1, filters, 3, strides, weight_decay)
      r2 == tf_nn_relu(batch_norm(c2, training))
      c3 == expand_conv(r2, filters, weight_decay)
      n3 == batch_norm(c3, training)
  IN tf_nn_relu(tf_add(n3, n3.t, shortcut))

bottleneck_block_v2(st, filters, training, proj, strides, weight_decay) ==
  LET shortcut0 == st.t
      pre == tf_nn_relu(batch_norm(st, training))
      inputs == pre.t
      s1 == IF proj.present THEN projection_shortcut(pre, proj, weight_decay)
            ELSE pre
      shortcut == IF proj.present THEN s1.t ELSE shortcut0
      c1 == conv2d_fixed_padding(At(s1, inputs), filters, 1, 1, weight_decay)
      r1 == tf_nn_relu(batch_norm(c1, training))
      c2 == conv2d_fixed_padding(r1, filters, 3, strides, weight_decay)
      r2 == tf_nn_relu(batch_norm(c2, training))
      c3 == expand_conv(r2, filters, weight_decay)
  IN tf_add(c3, c3.t, shortcut)

BlockFns ==
  {"_building_block_v1", "_building_block_v2",
   "_bottleneck_block_v1", "_bottleneck_block_v2"}

\* One invocation block_fn(inputs, filters, training, projection, strides,
\* weight_decay), entered in the log of block invocations
block_fn_call(block_fn, st, filters, training, proj, strides, weight_decay) ==
  IF st.err # NoError THEN st
  ELSE LET r == CASE block_fn = "_building_block_v1" ->
                       building_block_v1(st, filters, training, proj, strides, weight_decay)
                  [] block_fn = "_building_block_v2" ->
                       building_block_v2(st, filters, training, proj, strides, weight_decay)
                  [] block_fn = "_bottleneck_block_v1" ->
                       bottleneck_block_v1(st, filters, training, proj, strides, weight_decay)
                  [] block_fn = "_bottleneck_block_v2" ->
                       bottleneck_block_v2(st, filters, training, proj, strides, weight_decay)
       IN [r EXCEPT !.bcalls =
             Append(@, [fn |-> block_fn, filters |-> filters,
                        training |-> training, proj |-> proj,
                        strides |-> strides, layer |-> Len(st.lcalls),
                        inp |-> st.t, outp |-> r.t])]

----------------------------------------------------------------------------
(* Block layer *)

RECURSIVE block_loop_from_zero(_, _, _, _, _, _)
\* the loop of block_layer as range(0, blocks): one invocation too many
block_loop_from_zero(st, i, blocks, block_fn, filters, args) ==
  IF i > blocks THEN st
  ELSE block_loop_from_zero(block_fn_call(block_fn, st, filters, args.training,
                                          None, 1, args.weight_decay),
                            i + 1, blocks, block_fn, filters, args)

RECURSIVE block_loop(_, _, _, _, _, _)
\* for _ in range(1, blocks): inputs = block_fn(inputs, filters, training, None, 1, ...)
block_loop(st, i, blocks, block_fn, filters, args) ==
  IF i >= blocks THEN st
  ELSE block_loop(block_fn_call(block_fn, st, filters, args.training, None, 1,
                                args.weight_decay),
                  i + 1, blocks, block_fn, filters, args)

\* filters_out without the bottleneck expansion
layer_filters_out_unexpanded(filters, bottleneck) == filters

\* filters_out = filters * 4 if bottleneck else filters
layer_filters_out(filters, bottleneck) ==
  IF bottleneck THEN filters * 4 ELSE filters

block_layer(st, filters, bottleneck, block_fn, blocks, strides, training, name, weight_decay) ==
  IF st.err # NoError THEN st
  ELSE LET filters_out == layer_filters_out(filters, bottleneck)
           entered == [st EXCEPT !.lcalls =
                         Append(@, [filters |-> filters, bottleneck |-> bottleneck,
                                    block_fn |-> block_fn, blocks |-> blocks,
                                    strides |-> strides, name |-> name,
                                    inp |-> st.t])]
           first == block_fn_call(block_fn, entered, filters, training,
                                  Closure(filters_out, strides), strides,
                                  weight_decay)
           last == block_loop(first, 1, blocks, block_fn, filters,
                              [training |-> training, weight_decay |-> weight_decay])
       IN tf_identity(last, name)

----------------------------------------------------------------------------
(* Model *)

tf_max_pooling2d(st, pool_size, strides) ==
  IF st.err # NoError THEN st
  ELSE LET sh == Cur(st).shape
       IN Emit(st, [op |-> "max_pooling2d", args |-> <<st.t>>,
                     shape |-> <<sh[1], SameOut(sh[2], strides),
                                 SameOut(sh[3], strides), sh[4]>>,
                     nonneg |-> Cur(st).nonneg, k |-> pool_size,
                     s |-> strides, padding |-> "SAME"])

tf_average_pooling2d(st, pool_size, strides) ==
  IF st.err # NoError THEN st
  ELSE LET sh == Cur(st).shape
       IN IF sh[2] < pool_size \/ sh[3] < pool_size
          THEN Raise(st, "ValueError")
          ELSE Emit(st, [op |-> "average_pooling2d", args |-> <<st.t>>,
                          shape |-> <<sh[1], ValidOut(sh[2], pool_size, strides),
                                      ValidOut(sh[3], pool_size, strides), sh[4]>>,
                          nonneg |-> Cur(st).nonneg, k |-> pool_size,
                          s |-> strides, padding |-> "VALID"])

contrib_flatten(st) ==
  IF st.err # NoError THEN st
  ELSE LET sh == Cur(st).shape
       IN Emit(st, [op |-> "flatten", args |-> <<st.t>>,
                     shape |-> <<sh[1], sh[2] * sh[3] * sh[4]>>,
                     nonneg |-> Cur(st).nonneg])

\* tf.contrib.layers.fully_connected: the projection, then its activation_fn,
\* which the call leaves at the library's default (ReLU)
contrib_fully_connected(st, num_outputs, wd) ==
  IF st.err # NoError THEN st
  ELSE tf_nn_relu(Emit(st, [op |-> "fully_connected", args |-> <<st.t>>,
                            shape |-> <<Cur(st).shape[1], num_outputs>>,
                            nonneg |-> FALSE, wd |-> wd]))

\* the selection with the versions of the bottleneck blocks exchanged
select_block_fn_swapped(bottleneck, version) ==
  IF bottleneck
  THEN IF version = 1 THEN "_bottleneck_block_v2" ELSE "_bottleneck_block_v1"
  ELSE IF version = 1 THEN "_building_block_v1" ELSE "_building_block_v2"

\* The block function Model.__init__ selects
select_block_fn(bottleneck, version) ==
  IF bottleneck
  THEN IF version = 1 THEN "_bottleneck_block_v1" ELSE "_bottleneck_block_v2"
  ELSE IF version = 1 THEN "_building_block_v1" ELSE "_building_block_v2"

\* the version check as an upper bound only
version_ok_upper_bound(version) == version <= 2

\* version in (1, 2)
version_ok(version) == version \in {1, 2}

\* Model.__init__: the object and the exception raised, if any
Model_init(bottleneck, num_classes, num_filters, kernel_size, conv_stride, pools, block_sizes, block_strides, final_size, version, weight_decay) ==
  IF ~version_ok(version)
  THEN [self |-> NoModel, err |-> "ValueError"]
  ELSE [self |-> [exists |-> TRUE,
                  resnet_version |-> version,
                  bottleneck |-> bottleneck,
                  block_fn |-> select_block_fn(bottleneck, version),
                  num_classes |-> num_classes,
                  num_filters |-> num_filters,
                  kernel_size |-> kernel_size,
                  conv_stride |-> conv_stride,
                  first_pool_size |-> pools[1],
                  first_pool_stride |-> pools[2],
                  second_pool_size |-> pools[3],
                  second_pool_stride |-> pools[4],
                  block_sizes |-> block_sizes,
                  block_strides |-> block_strides,
                  final_size |-> final_size,
                  weight_decay |-> weight_decay],
        err |-> NoError]

RECURSIVE Pow2(_)
Pow2(i) == IF i = 0 THEN 1 ELSE 2 * Pow2(i - 1)

\* the filter count with 2*i for 2**i
stage_filters_times(self, i) == self.num_filters * (2 * i)

\* num_filters = self.num_filters * (2**i)
stage_filters(self, i) == self.num_filters * Pow2(i)

RECURSIVE stage_loop(_, _, _, _)
\* for i, num_blocks in enumerate(self.block_sizes): ... block_layer(...)
stage_loop(self, st, i, training) ==
  IF i >= Len(self.block_sizes) \/ st.err # NoError THEN st
  ELSE IF i + 1 > Len(self.block_strides) THEN Raise(st, "IndexError")
  ELSE stage_loop(self,
                  block_layer(st, stage_filters(self, i), self.bottleneck,
                              self.block_fn, self.block_sizes[i + 1],
                              self.block_strides[i + 1], training,
                              <<"block_layer", i + 1>>, self.weight_decay),
                  i + 1, training)

\* the tail of Model.__call__ projecting to num_filters outputs
final_dense_num_filters(self, st) ==
  tf_identity(contrib_fully_connected(contrib_flatten(st), self.num_filters,
                                      self.weight_decay),
              <<"final_dense">>)

\* The tail of Model.__call__: flatten, fully connected, tf.identity
final_dense(self, st) ==
  tf_identity(contrib_fully_connected(contrib_flatten(st), self.num_classes,
                                      self.weight_decay),
              <<"final_dense">>)

\* Model.__call__(inputs, training)
Model_call(self, st, training) ==
  LET c0 == tf_identity(conv2d_fixed_padding(st, self.num_filters,
                                             self.kernel_size, self.conv_stride,
                                             self.weight_decay),
                        <<"initial_conv">>)
      p0 == IF self.first_pool_size # 0
            THEN tf_identity(tf_max_pooling2d(c0, self.first_pool_size,
                                              self.first_pool_stride),
                             <<"initial_max_pool">>)
            ELSE c0
      stages == stage_loop(self, p0, 0, training)
      act == tf_nn_relu(batch_norm(stages, training))
      pooled == tf_identity(tf_average_pooling2d(act, self.second_pool_size,
                                                 self.second_pool_stride),
                            <<"final_avg_pool">>)
  IN final_dense(self, pooled)

----------------------------------------------------------------------------
(* State machine *)

\* The program's state while the builder state `st` is current
Holds(st) ==
  /\ graph = st.g
  /\ out = st.t
  /\ err = st.err
  /\ bcalls = st.bcalls
  /\ lcalls = st.lcalls

\* The builder state a function returned becomes the program's state
Returned(result) == \E st \in {result} :
  /\ graph' = st.g
  /\ out' = st.t
  /\ err' = st.err
  /\ bcalls' = st.bcalls
  /\ lcalls' = st.lcalls

\* The state is an input tensor no function has been applied to
Fresh == Len(graph) = 1 /\ err = NoError /\ ~model.exists

Current ==
  [g |-> graph, t |-> out, err |-> err, bcalls |-> bcalls, lcalls |-> lcalls]

\* An input tensor [n, h, w, c] and no Model
InitTensor ==
  /\ ctor = NoArgs
  /\ applied = NoCall
  /\ model = NoModel
  /\ images = <<>>
  /\ ncalls = 0
  /\ params = NoParams
  /\ train = NoTrain
  /\ \E n \in BatchSizes, h \in 1 .. MaxSize, w \in 1 .. MaxSize,
        c \in 1 .. MaxChannels : Holds(Input(n, h, w, c))

\* conv2d_fixed_padding applied to the input
ConvApply(filters, kernel_size, strides, wd) ==
  /\ Fresh
  /\ Returned(conv2d_fixed_padding(Current, filters, kernel_size, strides, wd))
  /\ applied' = [fn |-> "conv2d_fixed_padding", filters |-> filters,
                 kernel_size |-> kernel_size, strides |-> strides]
  /\ UNCHANGED <<ctor, model, images, ncalls, params, train>>

NextConv ==
  \E filters \in FilterCounts, k \in 1 .. MaxKernel, s \in 1 .. MaxStride,
     wd \in WeightDecays :
       ConvApply(filters, k, s, wd)

SpecConv == InitTensor /\ [][NextConv]_vars

\* One block function applied to the input
BlockApply(block_fn, filters, training, proj, strides, wd) ==
  /\ Fresh
  /\ Returned(block_fn_call(block_fn, Current, filters, training, proj,
                            strides, wd))
  /\ applied' = [fn |-> block_fn, filters |-> filters, proj |-> proj,
                 strides |-> strides]
  /\ UNCHANGED <<ctor, model, images, ncalls, params, train>>

BottleneckFns == {"_bottleneck_block_v1", "_bottleneck_block_v2"}

NextBlock ==
  \E block_fn \in BlockFns, filters \in FilterCounts, s \in 1 .. MaxStride,
     withProj \in BOOLEAN, training \in BOOLEAN, wd \in WeightDecays :
       BlockApply(block_fn, filters, training,
                  IF withProj
                  THEN Closure(layer_filters_out(filters,
                                                 block_fn \in BottleneckFns), s)
                  ELSE None,
                  s, wd)

SpecBlock == InitTensor /\ [][NextBlock]_vars

\* block_layer applied to the input
LayerApply(filters, bottleneck, block_fn, blocks, strides, training, wd) ==
  /\ Fresh
  /\ Returned(block_layer(Current, filters, bottleneck, block_fn, blocks,
                          strides, training, <<"block_layer", 1>>, wd))
  /\ applied' = [fn |-> "block_layer", blocks |-> blocks]
  /\ UNCHANGED <<ctor, model, images, ncalls, params, train>>

NextLayer ==
  \E filters \in FilterCounts, bottleneck \in BOOLEAN, block_fn \in BlockFns,
     blocks \in 0 .. MaxBlocks, s \in 1 .. MaxStride, training \in BOOLEAN,
     wd \in WeightDecays :
       LayerApply(filters, bottleneck, block_fn, blocks, s, training, wd)

SpecLayer == InitTensor /\ [][NextLayer]_vars

StageLists(values) == UNION {[1 .. n -> values] : n \in 0 .. MaxStages}

\* The state after Model(...) was constructed (or its construction raised),
\* with the input batch [n, size, size, 3] the driver will feed it
InitModel ==
  \E bottleneck \in BOOLEAN, num_classes \in ClassCounts,
     num_filters \in FilterCounts, stem \in StemConvs, pools \in PoolConfigs,
     block_sizes \in StageLists(ModelBlockCounts),
     block_strides \in StageLists(ModelStrides),
     version \in Versions, weight_decay \in WeightDecays,
     n \in BatchSizes, size \in 1 .. MaxSize :
       \E r \in {Model_init(bottleneck, num_classes, num_filters, stem[1],
                            stem[2], pools, block_sizes, block_strides,
                            num_classes, version, weight_decay)} :
         /\ ctor = [given |-> TRUE, bottleneck |-> bottleneck,
                    num_classes |-> num_classes, num_filters |-> num_filters,
                    kernel_size |-> stem[1], conv_stride |-> stem[2],
                    pools |-> pools, block_sizes |-> block_sizes,
                    block_strides |-> block_strides, version |-> version,
                    weight_decay |-> weight_decay]
         /\ model = r.self
         /\ err = r.err
         /\ images = <<n, size, size, 3>>
         /\ graph = <<>>
         /\ out = NoTensor
         /\ bcalls = <<>>
         /\ lcalls = <<>>
         /\ ncalls = 0
         /\ applied = NoCall
         /\ params = NoParams
         /\ train = NoTrain

\* resnet.__call__(images, training): one invocation of the Model; an
\* exception of an earlier invocation has ended the driver
Call(training) ==
  /\ model.exists
  /\ err = NoError
  /\ ncalls < MaxCalls
  /\ Returned(Model_call(model,
                         Input(images[1], images[2], images[3], images[4]),
                         training))
  /\ ncalls' = ncalls + 1
  /\ applied' = [fn |-> "Model.__call__", training |-> training]
  /\ UNCHANGED <<ctor, model, images, params, train>>

Next == \E training \in BOOLEAN : Call(training)

Spec == InitModel /\ [][Next]_vars

----------------------------------------------------------------------------
(* build_resnet_ *)

\* The batch dimension of a placeholder whose batch size is not fixed (None)
UnknownDim == -1

\* No operation registered, nothing returned, nothing raised
NoGraph ==
  [g |-> <<>>, t |-> NoTensor, err |-> NoError, bcalls |-> <<>>,
   lcalls |-> <<>>]

\* the arguments of Model(...) with the version taken from params
build_resnet_args_params_version(p) ==
  [given |-> TRUE, bottleneck |-> p.bottleneck, num_classes |-> p.num_classes,
   num_filters |-> p.num_filters, kernel_size |-> p.kernel_size,
   conv_stride |-> p.conv_stride, pools |-> p.pools,
   block_sizes |-> p.block_sizes, block_strides |-> p.block_strides,
   version |-> p.version, weight_decay |-> p.weight_decay]

\* The arguments build_resnet_ constructs the Model with: the fields of
\* params, params.num_classes again as final_size, and DEFAULT_VERSION
build_resnet_args(p) ==
  [given |-> TRUE, bottleneck |-> p.bottleneck, num_classes |-> p.num_classes,
   num_filters |-> p.num_filters, kernel_size |-> p.kernel_size,
   conv_stride |-> p.conv_stride, pools |-> p.pools,
   block_sizes |-> p.block_sizes, block_strides |-> p.block_strides,
   version |-> DEFAULT_VERSION, weight_decay |-> p.weight_decay]

\* assert images.get_shape().as_list() == [None, image_size, image_size, 3]
images_shape_ok(shape, p) ==
  shape = <<UnknownDim, p.image_size, p.image_size, 3>>

\* A params object and the images of the inputs, before build_resnet_ ran
InitParams ==
  \E bottleneck \in BOOLEAN, num_classes \in ClassCounts,
     num_filters \in FilterCounts, stem \in StemConvs, pools \in PoolConfigs,
     block_sizes \in StageLists({1}),
     block_strides \in StageLists(ModelStrides),
     version \in Versions, weight_decay \in WeightDecays,
     n \in BatchSizes \cup {UnknownDim}, h \in 1 .. MaxSize :
       \E size \in {h, MaxSize} :
         /\ params = [given |-> TRUE, bottleneck |-> bottleneck,
                      num_classes |-> num_classes,
                      num_filters |-> num_filters, kernel_size |-> stem[1],
                      conv_stride |-> stem[2], pools |-> pools,
                      block_sizes |-> block_sizes,
                      block_strides |-> block_strides, version |-> version,
                      weight_decay |-> weight_decay, image_size |-> size]
         /\ images = <<n, h, h, 3>>
         /\ ctor = NoArgs
         /\ model = NoModel
         /\ Holds(NoGraph)
         /\ ncalls = 0
         /\ applied = NoCall
         /\ train = NoTrain

\* build_resnet_(is_training, inputs, params): construct the Model, check
\* the shape of the images, invoke the Model on them
build_resnet_(is_training) ==
  /\ params.given
  /\ err = NoError
  /\ ncalls < MaxCalls
  /\ \E a \in {build_resnet_args(params)} :
       \E r \in {Model_init(a.bottleneck, a.num_classes, a.num_filters,
                            a.kernel_size, a.conv_stride, a.pools,
                            a.block_sizes, a.block_strides, a.num_classes,
                            a.version, a.weight_decay)} :
         /\ ctor' = a
         /\ model' = r.self
         /\ Returned(IF r.err # NoError THEN Raise(NoGraph, r.err)
                     ELSE IF ~images_shape_ok(images, params)
                     THEN Raise(NoGraph, "AssertionError")
                     ELSE Model_call(r.self,
                                     Input(images[1], images[2], images[3],
                                           images[4]),
                                     is_training))
  /\ ncalls' = ncalls + 1
  /\ applied' = [fn |-> "build_resnet_", training |-> is_training]
  /\ UNCHANGED <<images, params, train>>

NextBuild == \E is_training \in BOOLEAN : build_resnet_(is_training)

SpecBuild == InitParams /\ [][NextBuild]_vars

----------------------------------------------------------------------------
(* The training entry point: the label columns of train.py *)

MaxRows == 2        \* rows of each of the two CSV files, 0..MaxRows

\* The tags column holds strings; a string is the sequence of its characters
TagStrings ==
  {<<"a">>, <<"b">>, <<"a", "b">>, <<"a", " ", "b">>, <<"b", " ", "a">>,
   <<"a", " ", " ", "b">>}

TagColumns == UNION {[1 .. n -> TagStrings] : n \in 0 .. MaxRows}

Range(seq) == {seq[i] : i \in 1 .. Len(seq)}

\* tag_str.split(' '): the pieces between single spaces, empty ones included
RECURSIVE split(_)
split(s) ==
  IF \A i \in 1 .. Len(s) : s[i] # " " THEN <<s>>
  ELSE LET i == CHOOSE k \in 1 .. Len(s) :
                  s[k] = " " /\ \A j \in 1 .. k - 1 : s[j] # " "
       IN <<SubSeq(s, 1, i - 1)>> \o split(SubSeq(s, i + 1, Len(s)))

\* for label in labels: if label not in list: list.append(label)
RECURSIVE append_new(_, _)
append_new(list, labels) ==
  IF labels = <<>> THEN list
  ELSE append_new(IF Head(labels) \in Range(list) THEN list
                  ELSE Append(list, Head(labels)),
                  Tail(labels))

\* for tag_str in tags: the labels of tag_str.split(' ') not yet listed
RECURSIVE unique_labels(_, _)
unique_labels(list, tags) ==
  IF tags = <<>> THEN list
  ELSE unique_labels(append_new(list, split(Head(tags))), Tail(tags))

\* frame['tags'].apply(lambda x: 1 if label in x.split(' ') else 0)
onehot(tags, label) ==
  [r \in 1 .. Len(tags) |-> IF label \in Range(split(tags[r])) THEN 1 ELSE 0]

\* assert(len(label_list[0]) == len(label_list[1]))
label_lists_agree(lists) == Len(lists[1]) = Len(lists[2])

\* frame.drop(["image_name", 'tags'], axis=1).as_matrix(): one row per row
\* of the frame, one entry per label column, in the order they were added
as_matrix(tags, columns) ==
  [r \in 1 .. Len(tags) |-> [c \in 1 .. Len(columns) |-> columns[c].values[r]]]

\* Both CSV files were read; nothing else has happened
InitTrain ==
  /\ \E train_tags \in TagColumns, eval_tags \in TagColumns :
       train = [pc |-> "read", tags |-> <<train_tags, eval_tags>>,
                label_list |-> <<<<>>, <<>>>>, columns |-> <<<<>>, <<>>>>,
                labels |-> <<<<>>, <<>>>>]
  /\ params = NoParams
  /\ ctor = NoArgs
  /\ model = NoModel
  /\ images = <<>>
  /\ Holds(NoGraph)
  /\ ncalls = 0
  /\ applied = NoCall

\* Build list with unique labels, for the train and for the dev file
BuildLabelLists ==
  /\ train.pc = "read"
  /\ train' = [train EXCEPT !.pc = "listed",
                 !.label_list = <<unique_labels(<<>>, train.tags[1]),
                                  unique_labels(<<>>, train.tags[2])>>]
  /\ UNCHANGED <<ctor, model, images, err, graph, out, bcalls, lcalls, ncalls,
                 applied, params>>

\* The assertion on the two label lists; a failed assertion ends the program
AssertLabelLists ==
  /\ train.pc = "listed"
  /\ IF label_lists_agree(train.label_list)
     THEN train' = [train EXCEPT !.pc = "checked"] /\ err' = err
     ELSE train' = [train EXCEPT !.pc = "aborted"] /\ err' = "AssertionError"
  /\ UNCHANGED <<ctor, model, images, graph, out, bcalls, lcalls, ncalls,
                 applied, params>>

\* Add onehot features for every label of the train file's list, to both
\* frames
AddOnehot ==
  /\ train.pc = "checked"
  /\ train' = [train EXCEPT !.pc = "onehot",
                 !.columns =
                   [f \in 1 .. 2 |->
                      [c \in 1 .. Len(train.label_list[1]) |->
                         [name |-> train.label_list[1][c],
                          values |-> onehot(train.tags[f],
                                            train.label_list[1][c])]]]]
  /\ UNCHANGED <<ctor, model, images, err, graph, out, bcalls, lcalls, ncalls,
                 applied, params>>

\* Convert the labels to a matrix
ConvertLabels ==
  /\ train.pc = "onehot"
  /\ train' = [train EXCEPT !.pc = "matrix",
                 !.labels = [f \in 1 .. 2 |->
                               as_matrix(train.tags[f], train.columns[f])]]
  /\ UNCHANGED <<ctor, model, images, err, graph, out, bcalls, lcalls, ncalls,
                 applied, params>>

\* Create the iterators and define the model
DefineModel ==
  /\ train.pc = "matrix"
  /\ train' = [train EXCEPT !.pc = "model"]
  /\ UNCHANGED <<ctor, model, images, err, graph, out, bcalls, lcalls, ncalls,
                 applied, params>>

NextTrain ==
  \/ BuildLabelLists
  \/ AssertLabelLists
  \/ AddOnehot
  \/ ConvertLabels
  \/ DefineModel

SpecTrain == InitTrain /\ [][NextTrain]_vars

----------------------------------------------------------------------------
(* Properties *)

Nodes(op) == {i \in 1 .. Len(graph) : graph[i].op = op}

ShapeOf(h) == graph[h].shape

Arg(h) == graph[h].args[1]

\* block_layer was given the bottleneck flag of its block function, as
\* Model.__call__ gives it
LayerConsistent ==
  lcalls[1].bottleneck = (lcalls[1].block_fn \in BottleneckFns)

\* The additive join of the j-th block invocation that returned
JoinOf(j) ==
  IF graph[bcalls[j].outp].op = "add" THEN bcalls[j].outp
  ELSE Arg(bcalls[j].outp)

\* o is ceil(i / s)
IsCeil(o, i, s) == o * s >= i /\ (o - 1) * s < i

\* C1: constructing a Model with a version other than 1 or 2 raises
\* ValueError and leaves no Model, whatever the other arguments are; with
\* version 1 or 2 the construction succeeds and keeps the version.
C1_VersionValidated ==
  ctor.given =>
    IF ctor.version \in {1, 2}
    THEN /\ model.exists
         /\ model.resnet_version = ctor.version
         /\ (ncalls = 0 => err = NoError)
    ELSE /\ ~model.exists
         /\ err = "ValueError"
         /\ graph = <<>>
         /\ ncalls = 0

\* C1 witness: a construction with version 3 that raised
C1_Witness ==
  /\ ctor.given
  /\ ctor.version = 3
  /\ ctor.bottleneck
  /\ Len(ctor.block_sizes) = 2
  /\ err = "ValueError"
  /\ ~model.exists

\* C2: in a stage built by block_layer with blocks >= 1, for each of the four
\* block variants, every block reaches its additive join and the main path
\* and the shortcut have the same shape there; the first block's shortcut is
\* the 1x1 projection with the stage's strides, a later block's shortcut is
\* the block's input.
C2_JoinShapesAgree ==
  (applied.fn = "block_layer" /\ applied.blocks >= 1 /\ LayerConsistent) =>
    /\ err = NoError
    /\ Len(bcalls) = applied.blocks
    /\ Cardinality(Nodes("add")) = applied.blocks
    /\ \A i \in Nodes("add") :
         ShapeOf(graph[i].args[1]) = ShapeOf(graph[i].args[2])
    /\ \A j \in 1 .. Len(bcalls) :
         LET shortcut == graph[JoinOf(j)].args[2]
             r == IF graph[shortcut].op = "batch_norm" THEN Arg(shortcut)
                  ELSE shortcut
         IN IF j = 1
            THEN /\ graph[r].op = "relu"
                 /\ graph[Arg(r)].op = "conv2d"
                 /\ graph[Arg(r)].k = 1
                 /\ graph[Arg(r)].s = lcalls[1].strides
            ELSE shortcut = bcalls[j].inp

\* C2 witness: a stage of three bottleneck-v1 blocks with strides 2 on an
\* input of odd height
C2_Witness ==
  /\ applied.fn = "block_layer"
  /\ applied.blocks = 3
  /\ LayerConsistent
  /\ lcalls[1].block_fn = "_bottleneck_block_v1"
  /\ lcalls[1].strides = 2
  /\ ShapeOf(1)[2] = 3
  /\ Cardinality(Nodes("add")) = 3
  /\ err = NoError

\* C3: block_layer with blocks = n >= 1 invokes the block function n times,
\* each on the previous block's output; only the first invocation gets the
\* projection shortcut and the stage's strides, the others get None and 1
\* and keep the shape, so the shape changes once, at the head of the stage.
C3_OnlyHeadProjects ==
  (applied.fn = "block_layer" /\ applied.blocks >= 1) =>
    /\ Len(lcalls) = 1
    /\ lcalls[1].blocks = applied.blocks
    /\ Len(bcalls) >= 1
    /\ Len(bcalls) <= applied.blocks
    /\ (err = NoError =>
          /\ Len(bcalls) = applied.blocks
          /\ graph[out].op = "identity"
          /\ graph[out].args = <<bcalls[Len(bcalls)].outp>>)
    /\ \A j \in 1 .. Len(bcalls) :
         /\ bcalls[j].fn = lcalls[1].block_fn
         /\ bcalls[j].filters = lcalls[1].filters
         /\ IF j = 1
            THEN /\ bcalls[j].proj.present
                 /\ bcalls[j].proj.strides = lcalls[1].strides
                 /\ bcalls[j].proj.filters_out =
                      (IF lcalls[1].bottleneck THEN 4 * lcalls[1].filters
                       ELSE lcalls[1].filters)
                 /\ bcalls[j].strides = lcalls[1].strides
                 /\ bcalls[j].inp = lcalls[1].inp
            ELSE /\ ~bcalls[j].proj.present
                 /\ bcalls[j].strides = 1
                 /\ bcalls[j].inp = bcalls[j - 1].outp
                 /\ (bcalls[j].outp # NoTensor =>
                       ShapeOf(bcalls[j].outp) = ShapeOf(bcalls[j].inp))
    /\ (LayerConsistent =>
          /\ ShapeOf(bcalls[1].outp)[1] = ShapeOf(1)[1]
          /\ IsCeil(ShapeOf(bcalls[1].outp)[2], ShapeOf(1)[2], lcalls[1].strides)
          /\ IsCeil(ShapeOf(bcalls[1].outp)[3], ShapeOf(1)[3], lcalls[1].strides)
          /\ ShapeOf(bcalls[1].outp)[4] =
               (IF lcalls[1].bottleneck THEN 4 * lcalls[1].filters
                ELSE lcalls[1].filters))

\* C3 witness: a stage of three basic-v2 blocks with strides 3 whose head
\* changed the shape
C3_Witness ==
  /\ applied.fn = "block_layer"
  /\ applied.blocks = 3
  /\ Len(bcalls) = 3
  /\ lcalls[1].block_fn = "_building_block_v2"
  /\ lcalls[1].strides = 3
  /\ err = NoError
  /\ ShapeOf(bcalls[1].outp) # ShapeOf(bcalls[1].inp)
  /\ ShapeOf(bcalls[3].outp) = ShapeOf(bcalls[1].outp)

\* C4: conv2d_fixed_padding returns `filters` channels and the input's batch
\* size; with strides 1 the height and width are the input's; with strides
\* > 1 it pads height and width by kernel_size - 1 in total, (k-1)//2 of it
\* before, convolves with VALID padding, and each output size is
\* ceil(input / strides).
C4_ConvOutputShape ==
  applied.fn = "conv2d_fixed_padding" =>
    /\ err = NoError
    /\ graph[Arg(out)].op = "conv2d"
    /\ ShapeOf(out)[1] = ShapeOf(1)[1]
    /\ ShapeOf(out)[4] = applied.filters
    /\ IF applied.strides = 1
       THEN /\ ShapeOf(out)[2] = ShapeOf(1)[2]
            /\ ShapeOf(out)[3] = ShapeOf(1)[3]
            /\ Nodes("pad") = {}
       ELSE /\ Nodes("pad") = {2}
            /\ graph[2].pad_beg = (applied.kernel_size - 1) \div 2
            /\ graph[2].pad_beg + graph[2].pad_end = applied.kernel_size - 1
            /\ ShapeOf(2) = <<ShapeOf(1)[1],
                              ShapeOf(1)[2] + applied.kernel_size - 1,
                              ShapeOf(1)[3] + applied.kernel_size - 1,
                              ShapeOf(1)[4]>>
            /\ graph[Arg(out)].args = <<2>>
            /\ graph[Arg(out)].padding = "VALID"
            /\ IsCeil(ShapeOf(out)[2], ShapeOf(1)[2], applied.strides)
            /\ IsCeil(ShapeOf(out)[3], ShapeOf(1)[3], applied.strides)

\* C4 witness: strides 2 and kernel size 2 on an input of height 3
C4_Witness ==
  /\ applied.fn = "conv2d_fixed_padding"
  /\ applied.strides = 2
  /\ applied.kernel_size = 2
  /\ ShapeOf(1)[2] = 3
  /\ err = NoError
  /\ graph[2].pad_beg = 0
  /\ graph[2].pad_end = 1
  /\ ShapeOf(out)[2] = 2

\* The shape of the main path of a block at its join, for the input of the
\* graph: [batch, ceil(H / strides), ceil(W / strides), channels]
MainShape(strides, channels) ==
  <<ShapeOf(1)[1], CeilDiv(ShapeOf(1)[2], strides),
    CeilDiv(ShapeOf(1)[3], strides), channels>>

\* C5 as stated: both bottleneck variants return a tensor with exactly
\* 4 * filters channels for every input channel count, every strides and
\* with or without a projection shortcut.
C5_AlwaysReturnsExpanded ==
  applied.fn \in BottleneckFns =>
    /\ err = NoError
    /\ ShapeOf(out)[4] = 4 * applied.filters

\* C5 as amended: a bottleneck variant that returns, returns 4 * filters
\* channels; it returns for every input when given the projection of
\* block_layer, and without a projection exactly when the input's shape can
\* be added to the main path's, raising ValueError at the join otherwise.
C5_ReturnsExpandedOrRaises ==
  applied.fn \in BottleneckFns =>
    /\ (err = NoError => ShapeOf(out)[4] = 4 * applied.filters)
    /\ (applied.proj.present => err = NoError)
    /\ (~applied.proj.present =>
          IF Broadcastable(ShapeOf(1),
                           MainShape(applied.strides, 4 * applied.filters))
          THEN err = NoError
          ELSE err = "ValueError" /\ out = NoTensor)

\* C5 witness: bottleneck-v2 with a projection on 3 input channels
C5_Witness ==
  /\ applied.fn = "_bottleneck_block_v2"
  /\ applied.proj.present
  /\ applied.filters = 2
  /\ applied.strides = 2
  /\ ShapeOf(1)[4] = 3
  /\ err = NoError
  /\ ShapeOf(out)[4] = 8

\* C6: an invocation of a Model with block_sizes and block_strides of equal
\* length on a batch [batch, H, W, 3] returns a tensor [batch, num_classes],
\* unless the final average pool is larger than its input (then the
\* pooling raises).
C6_LogitsShape ==
  (applied.fn = "Model.__call__"
     /\ Len(model.block_sizes) = Len(model.block_strides)) =>
    \/ /\ err = NoError
       /\ ShapeOf(out) = <<images[1], model.num_classes>>
    \/ /\ err = "ValueError"
       /\ out = NoTensor
       /\ graph[Len(graph)].op = "relu"
       /\ Len(ShapeOf(Len(graph))) = 4
       /\ \/ ShapeOf(Len(graph))[2] < model.second_pool_size
          \/ ShapeOf(Len(graph))[3] < model.second_pool_size

\* C6 witness: a training invocation of a version 1 bottleneck Model of two
\* stages that returned [2, 3]
C6_Witness ==
  /\ applied.fn = "Model.__call__"
  /\ applied.training
  /\ model.resnet_version = 1
  /\ model.bottleneck
  /\ Len(model.block_sizes) = 2
  /\ Len(model.block_strides) = 2
  /\ err = NoError
  /\ ShapeOf(out) = <<2, 3>>

\* C7 as stated: the tensor a Model invocation returns is the output of the
\* fully connected projection itself, with no activation between the
\* projection and the returned logits.
C7_RawLogits ==
  (applied.fn = "Model.__call__" /\ err = NoError) =>
    /\ graph[out].op = "identity"
    /\ graph[Arg(out)].op = "fully_connected"
    /\ ~graph[out].nonneg

\* C8 as stated: block_sizes and block_strides of different lengths are
\* rejected when the Model is constructed, before any part of the network
\* is built.
C8_LengthsValidated ==
  (ctor.given /\ Len(ctor.block_sizes) # Len(ctor.block_strides)) =>
    /\ ~model.exists
    /\ err # NoError
    /\ graph = <<>>

C9_Variant(version, bottleneck) ==
  CASE version = 1 /\ ~bottleneck -> "_building_block_v1"
    [] version = 2 /\ ~bottleneck -> "_building_block_v2"
    [] version = 1 /\ bottleneck -> "_bottleneck_block_v1"
    [] version = 2 /\ bottleneck -> "_bottleneck_block_v2"

\* C9: a Model holds the block variant of its (version, bottleneck):
\* (1, false) basic-v1, (2, false) basic-v2, (1, true) bottleneck-v1,
\* (2, true) bottleneck-v2; no invocation changes the Model, and every
\* block of every stage of every invocation is built by that variant.
C9_VariantFixed ==
  /\ [](model.exists =>
          /\ model.block_fn = C9_Variant(ctor.version, ctor.bottleneck)
          /\ \A j \in 1 .. Len(bcalls) : bcalls[j].fn = model.block_fn
          /\ \A j \in 1 .. Len(lcalls) :
               /\ lcalls[j].block_fn = model.block_fn
               /\ lcalls[j].bottleneck = ctor.bottleneck)
  /\ [][model' = model]_vars

\* C9 witness: the second invocation of a version 1 bottleneck Model
C9_Witness ==
  /\ ncalls = 2
  /\ model.exists
  /\ model.block_fn = "_bottleneck_block_v1"
  /\ Len(bcalls) >= 3
  /\ err = NoError

\* The final normalization of a returned invocation:
\* final_dense <- relu <- fully_connected <- flatten <- final_avg_pool
\* <- average_pooling2d <- relu <- it
FinalNorm == Arg(Arg(Arg(Arg(Arg(Arg(Arg(out)))))))

\* The tensor the final normalization consumes
BeforeFinalNorm == Arg(FinalNorm)

\* The tensor the first stage is built on
AfterStem ==
  IF model.first_pool_size # 0 THEN <<"initial_max_pool">>
  ELSE <<"initial_conv">>

\* C10: an invocation builds the block layers in the order of block_sizes,
\* after the initial convolution (and max pool) and before the final
\* normalization; stage i (from 0) has num_filters * 2^i filters,
\* block_sizes[i] blocks and strides block_strides[i]; num_filters itself
\* stays as constructed.
C10_StagesInOrder ==
  applied.fn = "Model.__call__" =>
    /\ model.num_filters = ctor.num_filters
    /\ Len(lcalls) <= Len(model.block_sizes)
    /\ \A j \in 1 .. Len(lcalls) :
         /\ lcalls[j].filters = model.num_filters * 2 ^ (j - 1)
         /\ lcalls[j].blocks = model.block_sizes[j]
         /\ lcalls[j].strides = model.block_strides[j]
         /\ lcalls[j].name = <<"block_layer", j>>
         /\ graph[lcalls[j].inp].op = "identity"
         /\ graph[lcalls[j].inp].name =
              (IF j = 1 THEN AfterStem ELSE <<"block_layer", j - 1>>)
    /\ (err = NoError =>
          /\ Len(lcalls) = Len(model.block_sizes)
          /\ graph[FinalNorm].op = "batch_norm"
          /\ graph[BeforeFinalNorm].op = "identity"
          /\ graph[BeforeFinalNorm].name =
               (IF Len(lcalls) = 0 THEN AfterStem
                ELSE <<"block_layer", Len(lcalls)>>))
    /\ (err = "IndexError" =>
          /\ Len(lcalls) = Len(model.block_strides)
          /\ Len(lcalls) < Len(model.block_sizes))

\* C10 witness: two stages of 1 and 2 blocks with strides 2 and 1 and
\* 2 and 4 filters
C10_Witness ==
  /\ applied.fn = "Model.__call__"
  /\ err = NoError
  /\ model.block_sizes = <<1, 2>>
  /\ model.block_strides = <<2, 1>>
  /\ Len(lcalls) = 2
  /\ lcalls[1].filters = 2
  /\ lcalls[2].filters = 4

\* The pre-activation (v2) and the original (v1) block functions
V2Fns == {"_building_block_v2", "_bottleneck_block_v2"}

V1Fns == {"_building_block_v1", "_bottleneck_block_v1"}

\* C11: a v2 block (basic or bottleneck) that returns is the sum
\* main + shortcut with no operation after it; the shortcut is the block's
\* raw input when no projection was given, and otherwise a projection whose
\* convolution consumes the normalized-and-activated input; the last
\* operation of the main path, the one whose result is summed, is a
\* convolution.
C11_PreActivationJoin ==
  (applied.fn \in V2Fns /\ err = NoError) =>
    /\ graph[out].op = "add"
    /\ out = Len(graph)
    /\ graph[2].op = "batch_norm" /\ Arg(2) = 1
    /\ graph[3].op = "relu" /\ Arg(3) = 2
    /\ LET main == graph[out].args[1]
           shortcut == graph[out].args[2]
       IN /\ graph[main].op = "conv2d"
          /\ IF applied.proj.present
             THEN \E c \in Nodes("conv2d") :
                    /\ graph[c].k = 1
                    /\ graph[c].s = applied.proj.strides
                    /\ graph[c].shape[4] = applied.proj.filters_out
                    /\ Arg(c) = (IF applied.proj.strides > 1 THEN 4 ELSE 3)
                    /\ (applied.proj.strides > 1 =>
                          graph[4].op = "pad" /\ Arg(4) = 3)
                    /\ shortcut \in {c, c + 1}
             ELSE shortcut = 1

\* C12: a v1 block (basic or bottleneck) that returns is one ReLU applied to
\* the sum main + shortcut; the shortcut is the raw input when no projection
\* was given, and otherwise the normalization of the projection of the raw
\* input; the main path ends in a normalization, and every convolution of
\* the block is consumed directly by a normalization.
C12_PostActivationJoin ==
  (applied.fn \in V1Fns /\ err = NoError) =>
    /\ graph[out].op = "relu"
    /\ out = Len(graph)
    /\ graph[Arg(out)].op = "add"
    /\ Cardinality(Nodes("add")) = 1
    /\ LET main == graph[Arg(out)].args[1]
           shortcut == graph[Arg(out)].args[2]
       IN /\ graph[main].op = "batch_norm"
          /\ main = Arg(out) - 1
          /\ IF applied.proj.present
             THEN /\ graph[shortcut].op = "batch_norm"
                  /\ \E c \in Nodes("conv2d") :
                       /\ graph[c].k = 1
                       /\ graph[c].s = applied.proj.strides
                       /\ graph[c].shape[4] = applied.proj.filters_out
                       /\ Arg(c) = (IF applied.proj.strides > 1 THEN 2 ELSE 1)
                       /\ (applied.proj.strides > 1 =>
                             graph[2].op = "pad" /\ Arg(2) = 1)
                       /\ Arg(shortcut) \in {c, c + 1}
             ELSE shortcut = 1
    /\ \A c \in Nodes("conv2d") :
         /\ c < Len(graph)
         /\ graph[c + 1].op = "batch_norm"
         /\ Arg(c + 1) = c

\* C14: build_resnet_ constructs the Model with version 2 whatever params
\* holds (a version field of params included): the construction never fails
\* on the version check, the block function is _building_block_v2 when
\* params.bottleneck is false and _bottleneck_block_v2 when it is true, and
\* every block the invocation builds is built by that function.
C14_AlwaysVersionTwo ==
  applied.fn = "build_resnet_" =>
    /\ ctor.version = 2
    /\ ctor.bottleneck = params.bottleneck
    /\ model.exists
    /\ model.resnet_version = 2
    /\ model.block_fn = (IF params.bottleneck THEN "_bottleneck_block_v2"
                         ELSE "_building_block_v2")
    /\ \A j \in 1 .. Len(bcalls) : bcalls[j].fn = model.block_fn
    /\ \A j \in 1 .. Len(lcalls) : lcalls[j].block_fn = model.block_fn

\* C14 witness: params that hold version 1 and bottleneck; the network was
\* built with bottleneck-v2 blocks
C14_Witness ==
  /\ applied.fn = "build_resnet_"
  /\ params.version = 1
  /\ params.bottleneck
  /\ err = NoError
  /\ Len(bcalls) >= 1
  /\ bcalls[1].fn = "_bottleneck_block_v2"

\* The distinct tags of a tags column
Vocabulary(tags) == UNION {Range(split(tags[r])) : r \in 1 .. Len(tags)}

\* C13: the training entry point aborts, with no label column added and no
\* model defined, whenever the vocabulary of the train file's tags differs
\* from the vocabulary of the dev file's tags; when it goes on, both frames
\* get one 0/1 column per distinct tag of the shared vocabulary.
C13_VocabularyMismatchAborts ==
  train.pc \in {"checked", "onehot", "matrix", "model", "aborted"} =>
    /\ train.pc = "aborted" <=>
         Vocabulary(train.tags[1]) # Vocabulary(train.tags[2])
    /\ train.pc = "aborted" =>
         /\ err = "AssertionError"
         /\ train.columns = <<<<>>, <<>>>>
    /\ train.pc \in {"onehot", "matrix", "model"} =>
         /\ err = NoError
         /\ \A f \in 1 .. 2 :
              /\ {train.columns[f][c].name :
                    c \in 1 .. Len(train.columns[f])} =
                   Vocabulary(train.tags[f])
              /\ Len(train.columns[f]) =
                   Cardinality(Vocabulary(train.tags[f]))
              /\ \A c \in 1 .. Len(train.columns[f]) :
                   \A r \in 1 .. Len(train.tags[f]) :
                     train.columns[f][c].values[r] =
                       (IF train.columns[f][c].name \in
                             Range(split(train.tags[f][r]))
                        THEN 1 ELSE 0)

====
